---------------------------- MODULE Spec2Model ----------------------------
(***************************************************************************)
(* Model of MobileDeviceUsageAndUseBehaviourDahboard.py: a Streamlit       *)
(* script that is re-executed top to bottom on every interaction of every  *)
(* session.  The script loads user_behavior_dataset.csv through a          *)
(* memoized loader, derives the Age_Group column, reads four filter        *)
(* widgets, filters the table, stops on an empty result, computes the key  *)
(* metrics and exports the filtered view as CSV text.                      *)
(*                                                                         *)
(* Text (the file on disk, the exported CSV) is a sequence of tokens: the  *)
(* characters "0".."9", ".", ",", "\n", and one token per label (a column  *)
(* name or a category value, none of which holds a comma, a quote or a     *)
(* line break, so that the writer never quotes).  A float is the pair      *)
(* <<m, k>> standing for m / 10^k with k minimal, which is what the        *)
(* shortest round-trip repr of a short decimal denotes.                    *)
(***************************************************************************)
EXTENDS Integers, Sequences, FiniteSets, TLC

VARIABLES
    filePresent,      \* whether user_behavior_dataset.csv exists on disk
    fileText,         \* its contents, as tokens
    cache,            \* st.cache_data's entry for load_data(): NoEntry or a table
    reads,            \* successful pd.read_csv calls since the last invalidation
    pc,               \* per session: position of the running script
    df,               \* per session: the name df (Unbound until load_data returns)
    age_range,        \* per session: the slider's value <<lo, hi>>
    selected_gender,  \* per session: the selectboxes' values (cells)
    selected_os,
    selected_device,
    filtered_df,      \* per session: the filtered view
    heavy_users,      \* per session: the heavy-user count
    heavy_percent,    \* per session: <<numerator, denominator>> of the percentage
    csv,              \* per session: the exported text
    shown             \* per session: what the script has put on the page

vars == <<filePresent, fileText, cache, reads, pc, df, age_range,
          selected_gender, selected_os, selected_device, filtered_df,
          heavy_users, heavy_percent, csv, shown>>

---------------------------------------------------------------------------
(* Bounds of the model *)

\* longest table (in rows) drawn from the pool
MaxRows == 3

Sessions == {"s1", "s2"}

---------------------------------------------------------------------------
(* Generic helpers *)

Range(s) == {s[i] : i \in 1..Len(s)}

RECURSIVE Pow10(_)
Pow10(k) == IF k = 0 THEN 1 ELSE 10 * Pow10(k - 1)

DigitChars == <<"0", "1", "2", "3", "4", "5", "6", "7", "8", "9">>

IsDigit(c) == \E d \in 1..Len(DigitChars) : DigitChars[d] = c

DigitValue(c) == (CHOOSE d \in 1..Len(DigitChars) : DigitChars[d] = c) - 1

\* the decimal digits of a natural number, most significant first
RECURSIVE Digits(_)
Digits(n) ==
    IF n < 10 THEN <<DigitChars[n + 1]>>
    ELSE Append(Digits(n \div 10), DigitChars[(n % 10) + 1])

\* the natural number a non-empty digit string denotes
RECURSIVE NatOf(_)
NatOf(f) ==
    IF Len(f) = 0 THEN 0
    ELSE 10 * NatOf(SubSeq(f, 1, Len(f) - 1)) + DigitValue(f[Len(f)])

\* n as exactly k digits, zero-padded on the left
RECURSIVE PadDigits(_, _)
PadDigits(n, k) ==
    IF k = 0 THEN <<>>
    ELSE Append(PadDigits(n \div 10, k - 1), DigitChars[(n % 10) + 1])

\* split a token sequence at every occurrence of sep
RECURSIVE SplitOn(_, _)
SplitOn(text, sep) ==
    IF \A i \in 1..Len(text) : text[i] # sep THEN <<text>>
    ELSE LET p == CHOOSE i \in 1..Len(text) :
                      /\ text[i] = sep
                      /\ \A j \in 1..(i - 1) : text[j] # sep
         IN  <<SubSeq(text, 1, p - 1)>> \o SplitOn(SubSeq(text, p + 1, Len(text)), sep)

\* join token sequences with sep between them
RECURSIVE JoinWith(_, _)
JoinWith(parts, sep) ==
    IF Len(parts) = 0 THEN <<>>
    ELSE IF Len(parts) = 1 THEN parts[1]
    ELSE parts[1] \o <<sep>> \o JoinWith(Tail(parts), sep)

RECURSIVE Concat(_)
Concat(parts) == IF Len(parts) = 0 THEN <<>> ELSE parts[1] \o Concat(Tail(parts))

---------------------------------------------------------------------------
(* Cells.  <<"int", n>>, <<"float", m, k>>, <<"str", tokens>>,             *)
(* <<"cat", tokens>> (a value of a categorical column) and <<"nan">>.      *)

NaN == <<"nan">>

RECURSIVE Normalize(_, _)
Normalize(m, k) ==
    IF k > 0 /\ m % 10 = 0 THEN Normalize(m \div 10, k - 1) ELSE <<"float", m, k>>

IsIntField(f) == Len(f) > 0 /\ \A i \in 1..Len(f) : IsDigit(f[i])

IsFloatField(f) ==
    \E p \in 2..(Len(f) - 1) :
        /\ f[p] = "."
        /\ IsIntField(SubSeq(f, 1, p - 1))
        /\ IsIntField(SubSeq(f, p + 1, Len(f)))

FloatOf(f) ==
    IF IsIntField(f) THEN Normalize(NatOf(f), 0)
    ELSE LET p == CHOOSE i \in 1..Len(f) : f[i] = "."
             frac == SubSeq(f, p + 1, Len(f))
         IN  Normalize(NatOf(SubSeq(f, 1, p - 1)) * Pow10(Len(frac)) + NatOf(frac),
                       Len(frac))

\* the dtype pd.read_csv infers for a column from its fields
ColumnDtype(fields) ==
    LET present == {i \in 1..Len(fields) : fields[i] # <<>>}
    IN  IF present = {} THEN "float"
        ELSE IF \A i \in present : IsIntField(fields[i])
             THEN (IF present = 1..Len(fields) THEN "int" ELSE "float")
        ELSE IF \A i \in present : IsIntField(fields[i]) \/ IsFloatField(fields[i])
             THEN "float"
        ELSE "object"

ParseCell(f, dtype) ==
    IF f = <<>> THEN NaN
    ELSE IF dtype = "int" THEN <<"int", NatOf(f)>>
    ELSE IF dtype = "float" THEN FloatOf(f)
    ELSE <<"str", f>>

\* how DataFrame.to_csv writes one cell (na_rep = '', floats by repr)
FormatCell(c) ==
    IF c = NaN THEN <<>>
    ELSE IF c[1] = "int" THEN Digits(c[2])
    ELSE IF c[1] = "float"
         THEN IF c[3] = 0 THEN Digits(c[2]) \o <<".", "0">>
              ELSE Digits(c[2] \div Pow10(c[3])) \o <<".">>
                       \o PadDigits(c[2] % Pow10(c[3]), c[3])
    ELSE c[2]

---------------------------------------------------------------------------
(* Tables: [columns, index, data], data[i] a function from column name to  *)
(* cell, index[i] the row's label.                                         *)

NoEntry == [none |-> TRUE]
Unbound == [unbound |-> TRUE]

UnnamedNames == <<"Unnamed: 0", "Unnamed: 1", "Unnamed: 2", "Unnamed: 3",
                  "Unnamed: 4", "Unnamed: 5", "Unnamed: 6", "Unnamed: 7",
                  "Unnamed: 8", "Unnamed: 9", "Unnamed: 10", "Unnamed: 11">>

\* every line of a text split into its fields
RECURSIVE SplitEach(_)
SplitEach(ls) ==
    IF Len(ls) = 0 THEN <<>>
    ELSE <<SplitOn(Head(ls), ",")>> \o SplitEach(Tail(ls))

\* field j of each of the lines
RECURSIVE Column(_, _)
Column(ls, j) ==
    IF Len(ls) = 0 THEN <<>> ELSE <<Head(ls)[j]>> \o Column(Tail(ls), j)

\* the header's names; an empty name reads as "Unnamed: <position>"
RECURSIVE HeaderNames(_, _)
HeaderNames(head, j) ==
    IF j = 0 THEN <<>>
    ELSE Append(HeaderNames(head, j - 1),
                IF head[j] = <<>> THEN UnnamedNames[j] ELSE head[j][1])

RECURSIVE Dtypes(_, _)
Dtypes(rows, j) ==
    IF j = 0 THEN <<>>
    ELSE Append(Dtypes(rows, j - 1), ColumnDtype(Column(rows, j)))

\* one line's fields as a row: a function from column name to cell
ParseRow(fields, cols, dtype) ==
    LET cells == [j \in 1..Len(cols) |-> ParseCell(fields[j], dtype[j])]
    IN  [c \in Range(cols) |-> cells[CHOOSE j \in 1..Len(cols) : cols[j] = c]]

RECURSIVE ParseRows(_, _, _)
ParseRows(rows, cols, dtype) ==
    IF Len(rows) = 0 THEN <<>>
    ELSE <<ParseRow(Head(rows), cols, dtype)>> \o ParseRows(Tail(rows), cols, dtype)

\* pd.read_csv with its defaults: comma-separated, first line the header,
\* a dtype per column, a fresh RangeIndex
read_csv(text) ==
    LET all   == SplitOn(text, "\n")
        lines == SplitEach(SubSeq(all, 1, Len(all) - 1))
        cols  == HeaderNames(Head(lines), Len(Head(lines)))
        rows  == Tail(lines)
        dtype == Dtypes(rows, Len(cols))
    IN  [columns |-> cols,
         index   |-> [i \in 1..Len(rows) |-> i - 1],
         data    |-> ParseRows(rows, cols, dtype)]

---------------------------------------------------------------------------
(* The dataset file.  Every file the model draws has the columns the       *)
(* script reads, in this order, at least one data row, and an integer Age  *)
(* in every row.  (With no data row the script raises before any filter:   *)
(* int() of a NaN minimum at line 68 at the latest.)                       *)

FileColumns == <<"Age", "Gender", "Operating System", "Device Model",
                 "Screen On Time (hours/day)", "App Usage Time (min/day)",
                 "Battery Drain (mAh/day)", "Data Usage (MB/day)",
                 "Number of Apps Installed", "User Behavior Class">>

\* rows a file may hold, as the fields of one line
RowA == << <<"2", "5">>, <<"Male">>, <<"Android">>, <<"Google Pixel 5">>,
           <<"8", ".", "0">>, <<"9", "0">>, <<"7", "5", "0">>, <<"3", "0", "0">>,
           <<"4", "0">>, <<"4">> >>
RowB == << <<"2", "7">>, <<"Female">>, <<"Android">>, <<"Google Pixel 5">>,
           <<"7", ".", "9">>, <<"6", "0">>, <<"5", "0", "0">>, <<"2", "0", "0">>,
           <<"2", "0">>, <<"3">> >>
RowC == << <<"2", "7">>, <<"Male">>, <<"iOS">>, <<"iPhone 12">>,
           <<"1", "0", ".", "2", "5">>, <<"3", "0">>, <<"9", "0", "0">>, <<"1", "0", "0">>,
           <<"1", "0">>, <<"5">> >>

RowPool == {RowA, RowB, RowC}

\* ages around every edge of the bins, and outside them
ProbeAges == 15..62

ProbeRow(a) == [RowA EXCEPT ![1] = Digits(a)]

RECURSIVE SeqsUpTo(_, _)
SeqsUpTo(S, n) ==
    IF n = 0 THEN {<<>>}
    ELSE LET shorter == SeqsUpTo(S, n - 1)
         IN  shorter \cup {Append(q, x) : q \in shorter, x \in S}

\* the text of a file with the given rows
TextOf(rows) ==
    Concat([i \in 1..(Len(rows) + 1) |->
               (IF i = 1 THEN JoinWith([j \in 1..Len(FileColumns) |-> <<FileColumns[j]>>], ",")
                ELSE JoinWith(rows[i - 1], ",")) \o <<"\n">>])

FileTexts ==
    {TextOf(rows) : rows \in SeqsUpTo(RowPool, MaxRows) \ {<<>>}}
        \cup {TextOf(<<ProbeRow(a)>>) : a \in ProbeAges}

\* the files of the runs with several sessions
SharedFileTexts == {TextOf(<<RowA>>), TextOf(<<RowB>>), TextOf(<<RowB, RowC>>)}

---------------------------------------------------------------------------
(* load_data: read_csv, then the Age_Group column by pd.cut.               *)

bins == <<17, 25, 35, 45, 59>>
labels == <<"18-25", "26-35", "36-45", "46-59">>

\* pd.cut with right = False: intervals closed on the left
cut_left_closed(x) ==
    IF x = NaN THEN NaN
    ELSE IF \E i \in 1..(Len(bins) - 1) : bins[i] <= x[2] /\ x[2] < bins[i + 1]
         THEN <<"cat", <<labels[CHOOSE i \in 1..(Len(bins) - 1) :
                                   bins[i] <= x[2] /\ x[2] < bins[i + 1]]>> >>
    ELSE NaN

\* pd.cut(x, bins, labels) with its default right = True: (17,25], (25,35], ...
cut(x) ==
    IF x = NaN THEN NaN
    ELSE IF \E i \in 1..(Len(bins) - 1) : bins[i] < x[2] /\ x[2] <= bins[i + 1]
         THEN <<"cat", <<labels[CHOOSE i \in 1..(Len(bins) - 1) :
                                   bins[i] < x[2] /\ x[2] <= bins[i + 1]]>> >>
    ELSE NaN

\* the body of load_data's try block
LoadFrame(text) ==
    LET t == read_csv(text)
    IN  [columns |-> Append(t.columns, "Age_Group"),
         index   |-> t.index,
         data    |-> [i \in 1..Len(t.data) |->
                        [c \in Range(t.columns) \cup {"Age_Group"} |->
                            IF c = "Age_Group" THEN cut(t.data[i]["Age"])
                            ELSE t.data[i][c]]]]

---------------------------------------------------------------------------
(* Widgets and filters.                                                    *)

AllCell == <<"str", <<"All">>>>

NRows(t) == Len(t.data)

Ages(t) == {t.data[i]["Age"][2] : i \in 1..NRows(t)}

MinAge(t) == CHOOSE a \in Ages(t) : \A b \in Ages(t) : a <= b
MaxAge(t) == CHOOSE a \in Ages(t) : \A b \in Ages(t) : a >= b

\* the values st.sidebar.slider can return
SliderValues(t) ==
    {r \in (MinAge(t)..MaxAge(t)) \X (MinAge(t)..MaxAge(t)) : r[1] <= r[2]}

\* ['All'] + list(df[col].unique())
Options(t, col) == {AllCell} \cup {t.data[i][col] : i \in 1..NRows(t)}

\* positions 1..n that are in K, ascending
RECURSIVE Kept(_, _)
Kept(n, K) ==
    IF n = 0 THEN <<>>
    ELSE IF n \in K THEN Append(Kept(n - 1, K), n) ELSE Kept(n - 1, K)

\* t[mask]: a new frame of the rows whose position is in K, labels kept
Take(t, K) ==
    LET pos == Kept(NRows(t), K)
    IN  [columns |-> t.columns,
         index   |-> [j \in 1..Len(pos) |-> t.index[pos[j]]],
         data    |-> [j \in 1..Len(pos) |-> t.data[pos[j]]]]

\* the upper end of the range taken as exclusive
AgeStepExclusive(view, rng) ==
    Take(view, {i \in 1..NRows(view) :
                    /\ view.data[i]["Age"][2] >= rng[1]
                    /\ view.data[i]["Age"][2] < rng[2]})

\* df[(df['Age'] >= age_range[0]) & (df['Age'] <= age_range[1])]
AgeStep(view, rng) ==
    Take(view, {i \in 1..NRows(view) :
                    /\ view.data[i]["Age"][2] >= rng[1]
                    /\ view.data[i]["Age"][2] <= rng[2]})

\* the three conditional statements: an 'All' leaves the view as it is
GenderStep(view, sel) ==
    IF sel # AllCell
    THEN Take(view, {i \in 1..NRows(view) : view.data[i]["Gender"] = sel})
    ELSE view

OsStep(view, sel) ==
    IF sel # AllCell
    THEN Take(view, {i \in 1..NRows(view) : view.data[i]["Operating System"] = sel})
    ELSE view

DeviceStep(view, sel) ==
    IF sel # AllCell
    THEN Take(view, {i \in 1..NRows(view) : view.data[i]["Device Model"] = sel})
    ELSE view

\* every selector filters the source table again instead of the view so far
ApplyFiltersFromSource(t, rng, g, o, d) ==
    LET a == AgeStep(t, rng)
        b == IF g # AllCell THEN GenderStep(t, g) ELSE a
        c == IF o # AllCell THEN OsStep(t, o) ELSE b
    IN  IF d # AllCell THEN DeviceStep(t, d) ELSE c

\* filtered_df as the script computes it: age, then gender, OS, device
ApplyFilters(t, rng, g, o, d) ==
    DeviceStep(OsStep(GenderStep(AgeStep(t, rng), g), o), d)

---------------------------------------------------------------------------
(* Key metrics and export.                                                 *)

HeavyThreshold == 8

\* the comparison written > instead of >=
CellGT(c, h) ==
    IF c = NaN THEN FALSE
    ELSE IF c[1] = "int" THEN c[2] > h
    ELSE c[2] > h * Pow10(c[3])

\* cell >= h for a numeric cell; a missing value compares False
CellGE(c, h) ==
    IF c = NaN THEN FALSE
    ELSE IF c[1] = "int" THEN c[2] >= h
    ELSE c[2] >= h * Pow10(c[3])

HeavyRows(view) ==
    Take(view, {i \in 1..NRows(view) :
                    CellGE(view.data[i]["Screen On Time (hours/day)"], HeavyThreshold)})

\* DataFrame.to_csv(index=...): a header line, then one line per row
to_csv(view, index) ==
    LET head == [j \in 1..Len(view.columns) |-> <<view.columns[j]>>]
        line(i) == [j \in 1..Len(view.columns) |->
                       FormatCell(view.data[i][view.columns[j]])]
    IN  JoinWith((IF index THEN <<<<>>>> ELSE <<>>) \o head, ",") \o <<"\n">>
        \o Concat([i \in 1..NRows(view) |->
                      JoinWith((IF index THEN <<Digits(view.index[i])>> ELSE <<>>)
                                   \o line(i), ",") \o <<"\n">>])

\* to_csv with its default index=True
ExportWithIndex(view) == to_csv(view, TRUE)

\* csv = filtered_df.to_csv(index=False)
Export(view) == to_csv(view, FALSE)


---------------------------------------------------------------------------
(* The script, one run per interaction of a session.  pc is "start"        *)
(* before line 57, "loaded" after it, "filtered" after line 102, "metrics" *)
(* after the guard of line 105, "tabs" after line 145, "table" after line  *)
(* 314, "done" at the end of the script, "halted" after st.stop() and      *)
(* "crashed" after an uncaught exception.                                  *)

IsTable(x) == x # Unbound /\ x # NoEntry

\* load_data without the decorator
CacheNeverHit(entry) == FALSE

\* @st.cache_data: whether the call is served from the cache
CacheHit(entry) == entry # NoEntry

\* the except branch without st.stop(): load_data returns and the script goes on
AfterFileNotFoundNoStop == "loaded"

\* the except branch of load_data ends in st.stop()
AfterFileNotFound == "halted"

\* the guard written with < instead of ==
IsEmptyResultNegative(view) == NRows(view) < 0

\* len(filtered_df) == 0
IsEmptyResult(view) == NRows(view) = 0

\* the filter statements assigning to df instead of filtered_df
SourceOverwritten(t, view) == view

\* the table the name df holds after the filter statements: they only read it
SourceAfterFilters(t, view) == t

InitWith(texts) ==
    /\ filePresent \in BOOLEAN
    /\ fileText \in texts
    /\ cache = NoEntry
    /\ reads = 0
    /\ pc = [s \in Sessions |-> "start"]
    /\ df = [s \in Sessions |-> Unbound]
    /\ age_range = [s \in Sessions |-> Unbound]
    /\ selected_gender = [s \in Sessions |-> Unbound]
    /\ selected_os = [s \in Sessions |-> Unbound]
    /\ selected_device = [s \in Sessions |-> Unbound]
    /\ filtered_df = [s \in Sessions |-> Unbound]
    /\ heavy_users = [s \in Sessions |-> Unbound]
    /\ heavy_percent = [s \in Sessions |-> Unbound]
    /\ csv = [s \in Sessions |-> Unbound]
    /\ shown = [s \in Sessions |-> {}]

\* lines 41-57: df = load_data()
LoadData(s) ==
    /\ pc[s] = "start"
    /\ IF CacheHit(cache)
       THEN /\ df' = [df EXCEPT ![s] = cache]
            /\ pc' = [pc EXCEPT ![s] = "loaded"]
            /\ UNCHANGED <<cache, reads, shown>>
       ELSE IF filePresent
       THEN /\ cache' = LoadFrame(fileText)
            /\ reads' = reads + 1
            /\ df' = [df EXCEPT ![s] = cache']
            /\ pc' = [pc EXCEPT ![s] = "loaded"]
            /\ UNCHANGED shown
       ELSE /\ shown' = [shown EXCEPT ![s] = @ \cup {"error"}]
            /\ pc' = [pc EXCEPT ![s] = AfterFileNotFound]
            /\ UNCHANGED <<cache, reads, df>>
    /\ UNCHANGED <<filePresent, fileText, age_range, selected_gender,
                   selected_os, selected_device, filtered_df, heavy_users,
                   heavy_percent, csv>>

\* lines 59-102: the title, the four widgets, the filter, the row count
Sidebar(s) ==
    /\ pc[s] = "loaded"
    /\ IF ~IsTable(df[s])
       THEN /\ pc' = [pc EXCEPT ![s] = "crashed"]
            /\ shown' = [shown EXCEPT ![s] = @ \cup {"title"}]
            /\ UNCHANGED <<df, age_range, selected_gender, selected_os,
                           selected_device, filtered_df>>
       ELSE \E rng \in SliderValues(df[s]) :
            \E g \in Options(df[s], "Gender") :
            \E o \in Options(df[s], "Operating System") :
            \E d \in Options(df[s], "Device Model") :
                LET view == ApplyFilters(df[s], rng, g, o, d)
                IN  /\ age_range' = [age_range EXCEPT ![s] = rng]
                    /\ selected_gender' = [selected_gender EXCEPT ![s] = g]
                    /\ selected_os' = [selected_os EXCEPT ![s] = o]
                    /\ selected_device' = [selected_device EXCEPT ![s] = d]
                    /\ filtered_df' = [filtered_df EXCEPT ![s] = view]
                    /\ df' = [df EXCEPT ![s] = SourceAfterFilters(@, view)]
                    /\ shown' = [shown EXCEPT ![s] = @ \cup {"title", "count"}]
                    /\ pc' = [pc EXCEPT ![s] = "filtered"]
    /\ UNCHANGED <<filePresent, fileText, cache, reads, heavy_users,
                   heavy_percent, csv>>

\* lines 104-107: warn and stop on an empty view
EmptyGuard(s) ==
    /\ pc[s] = "filtered"
    /\ IF IsEmptyResult(filtered_df[s])
       THEN /\ shown' = [shown EXCEPT ![s] = @ \cup {"warning"}]
            /\ pc' = [pc EXCEPT ![s] = "halted"]
       ELSE /\ pc' = [pc EXCEPT ![s] = "metrics"]
            /\ UNCHANGED shown
    /\ UNCHANGED <<filePresent, fileText, cache, reads, df, age_range,
                   selected_gender, selected_os, selected_device, filtered_df,
                   heavy_users, heavy_percent, csv>>

\* lines 109-145: the three means (lines 115-136 divide by the row count
\* too), then heavy_users and heavy_percent
KeyMetrics(s) ==
    /\ pc[s] = "metrics"
    /\ IF NRows(filtered_df[s]) = 0
       THEN /\ pc' = [pc EXCEPT ![s] = "crashed"]
            /\ heavy_users' = [heavy_users EXCEPT ![s] = NRows(HeavyRows(filtered_df[s]))]
            /\ shown' = [shown EXCEPT ![s] = @ \cup {"means"}]
            /\ UNCHANGED heavy_percent
       ELSE /\ heavy_users' = [heavy_users EXCEPT ![s] = NRows(HeavyRows(filtered_df[s]))]
            /\ heavy_percent' = [heavy_percent EXCEPT ![s] =
                                    <<heavy_users'[s] * 100, NRows(filtered_df[s])>>]
            /\ shown' = [shown EXCEPT ![s] = @ \cup {"means", "heavy"}]
            /\ pc' = [pc EXCEPT ![s] = "tabs"]
    /\ UNCHANGED <<filePresent, fileText, cache, reads, df, age_range,
                   selected_gender, selected_os, selected_device, filtered_df, csv>>

\* lines 147-314: the five tabs, with the grouped means and the correlations
Tabs(s) ==
    /\ pc[s] = "tabs"
    /\ shown' = [shown EXCEPT ![s] = @ \cup {"grouped_means", "correlation"}]
    /\ pc' = [pc EXCEPT ![s] = "table"]
    /\ UNCHANGED <<filePresent, fileText, cache, reads, df, age_range,
                   selected_gender, selected_os, selected_device, filtered_df,
                   heavy_users, heavy_percent, csv>>

\* lines 316-344: the CSV export, the download button, the data table
DataTable(s) ==
    /\ pc[s] = "table"
    /\ csv' = [csv EXCEPT ![s] = Export(filtered_df[s])]
    /\ shown' = [shown EXCEPT ![s] = @ \cup {"download", "table"}]
    /\ pc' = [pc EXCEPT ![s] = "done"]
    /\ UNCHANGED <<filePresent, fileText, cache, reads, df, age_range,
                   selected_gender, selected_os, selected_device, filtered_df,
                   heavy_users, heavy_percent>>

\* the next interaction of the session: the script starts over, with every
\* name of the last run gone
Rerun(s) ==
    /\ pc[s] \in {"done", "halted", "crashed"}
    /\ pc' = [pc EXCEPT ![s] = "start"]
    /\ df' = [df EXCEPT ![s] = Unbound]
    /\ age_range' = [age_range EXCEPT ![s] = Unbound]
    /\ selected_gender' = [selected_gender EXCEPT ![s] = Unbound]
    /\ selected_os' = [selected_os EXCEPT ![s] = Unbound]
    /\ selected_device' = [selected_device EXCEPT ![s] = Unbound]
    /\ filtered_df' = [filtered_df EXCEPT ![s] = Unbound]
    /\ heavy_users' = [heavy_users EXCEPT ![s] = Unbound]
    /\ heavy_percent' = [heavy_percent EXCEPT ![s] = Unbound]
    /\ csv' = [csv EXCEPT ![s] = Unbound]
    /\ shown' = [shown EXCEPT ![s] = {}]
    /\ UNCHANGED <<filePresent, fileText, cache, reads>>

\* a cache invalidation event (the cache is cleared, or the process restarts)
ClearCache ==
    /\ cache # NoEntry
    /\ cache' = NoEntry
    /\ reads' = 0
    /\ UNCHANGED <<filePresent, fileText, pc, df, age_range, selected_gender,
                   selected_os, selected_device, filtered_df, heavy_users,
                   heavy_percent, csv, shown>>

\* the environment removes the dataset file, or puts it (back) in place
RemoveFile ==
    /\ filePresent
    /\ filePresent' = FALSE
    /\ UNCHANGED <<fileText, cache, reads, pc, df, age_range,
                   selected_gender, selected_os, selected_device, filtered_df,
                   heavy_users, heavy_percent, csv, shown>>

PlaceFile ==
    /\ ~filePresent
    /\ filePresent' = TRUE
    /\ UNCHANGED <<fileText, cache, reads, pc, df, age_range,
                   selected_gender, selected_os, selected_device, filtered_df,
                   heavy_users, heavy_percent, csv, shown>>

\* one step of session s's script run
Step(s) ==
    \/ LoadData(s)
    \/ Sidebar(s)
    \/ EmptyGuard(s)
    \/ KeyMetrics(s)
    \/ Tabs(s)
    \/ DataTable(s)
    \/ Rerun(s)

Env ==
    \/ ClearCache
    \/ RemoveFile
    \/ PlaceFile

(* One session, every file of FileTexts. *)
Init == InitWith(FileTexts)

Next == Step("s1") \/ Env

Spec == Init /\ [][Next]_vars

(* Several sessions whose script runs interleave step by step and share   *)
(* the cache, over the files of SharedFileTexts.                          *)
InitShared == InitWith(SharedFileTexts)

NextShared == (\E s \in Sessions : Step(s)) \/ Env

SpecShared == InitShared /\ [][NextShared]_vars

---------------------------------------------------------------------------
(* Properties.                                                             *)

HasView(s) == IsTable(filtered_df[s])

\* the filter setting as the claims state it: a row satisfies every constraint
Matches(row, rng, g, o, d) ==
    /\ rng[1] <= row["Age"][2]
    /\ row["Age"][2] <= rng[2]
    /\ (g = AllCell \/ row["Gender"] = g)
    /\ (o = AllCell \/ row["Operating System"] = o)
    /\ (d = AllCell \/ row["Device Model"] = d)

MatchingRows(s) ==
    {i \in 1..NRows(df[s]) :
        Matches(df[s].data[i], age_range[s], selected_gender[s],
                selected_os[s], selected_device[s])}

\* C1: the filtered view holds exactly the source rows, in source order and
\* each once, whose Age lies in [lo, hi] and whose Gender, Operating System
\* and Device Model equal every selector that is not 'All'.
C1_FilterExact ==
    \A s \in Sessions : HasView(s) =>
        LET t == df[s]
            v == filtered_df[s]
            M == MatchingRows(s)
        IN  /\ v.columns = t.columns
            /\ Len(v.index) = NRows(v)
            /\ NRows(v) = Cardinality(M)
            /\ {v.index[j] : j \in 1..NRows(v)} = {t.index[i] : i \in M}
            /\ \A j \in 1..NRows(v) :
                   \E i \in M : t.index[i] = v.index[j] /\ t.data[i] = v.data[j]
            /\ \A j \in 1..NRows(v) : \A k \in 1..NRows(v) :
                   j < k => v.index[j] < v.index[k]

\* C1 witness: an age range and three selectors, all active, keep some rows
\* and drop others.
C1_Witness ==
    \E s \in Sessions :
        /\ HasView(s)
        /\ selected_gender[s] # AllCell
        /\ selected_os[s] # AllCell
        /\ selected_device[s] # AllCell
        /\ age_range[s][1] > MinAge(df[s])
        /\ NRows(filtered_df[s]) > 0
        /\ NRows(filtered_df[s]) < NRows(df[s])

StepNames == {"age", "gender", "os", "device"}

\* the 24 orders in which the four constraints can be applied
Orders == {p \in [1..4 -> StepNames] : \A i \in 1..4 : \A j \in 1..4 : p[i] = p[j] => i = j}

ApplyOne(view, name, rng, g, o, d) ==
    CASE name = "age"    -> AgeStep(view, rng)
      [] name = "gender" -> GenderStep(view, g)
      [] name = "os"     -> OsStep(view, o)
      [] name = "device" -> DeviceStep(view, d)

RECURSIVE ApplyInOrder(_, _, _, _, _, _, _)
ApplyInOrder(t, p, k, rng, g, o, d) ==
    IF k = 0 THEN t
    ELSE ApplyOne(ApplyInOrder(t, p, k - 1, rng, g, o, d), p[k], rng, g, o, d)

\* C2: when the script has computed its view, applying the age, gender, OS
\* and device constraints in any of the 24 orders gives that very view.
C2_OrderIndependent ==
    \A s \in Sessions : pc[s] = "filtered" =>
        \A p \in Orders :
            ApplyInOrder(df[s], p, 4, age_range[s], selected_gender[s],
                         selected_os[s], selected_device[s]) = filtered_df[s]

\* C2 witness: the age range and the gender selector each drop a row the
\* other keeps, so the order of the two steps matters to the intermediate views.
C2_Witness ==
    \E s \in Sessions :
        /\ pc[s] = "filtered"
        /\ selected_gender[s] # AllCell
        /\ \E i \in 1..NRows(df[s]) : \E j \in 1..NRows(df[s]) :
              /\ df[s].data[i]["Gender"] = selected_gender[s]
              /\ df[s].data[i]["Age"][2] < age_range[s][1]
              /\ df[s].data[j]["Gender"] # selected_gender[s]
              /\ df[s].data[j]["Age"][2] >= age_range[s][1]
              /\ df[s].data[j]["Age"][2] <= age_range[s][2]

\* setting 2 constrains at least as much as setting 1
AtLeastAsTight(rng2, g2, o2, d2, rng1, g1, o1, d1) ==
    /\ rng1[1] <= rng2[1]
    /\ rng2[2] <= rng1[2]
    /\ (g1 = AllCell \/ g2 = g1)
    /\ (o1 = AllCell \/ o2 = o1)
    /\ (d1 = AllCell \/ d2 = d1)

TighterCounts(s) ==
    {NRows(ApplyFilters(df[s], rng, g, o, d)) :
        <<rng, g, o, d>> \in
            {x \in SliderValues(df[s]) \X Options(df[s], "Gender")
                     \X Options(df[s], "Operating System")
                     \X Options(df[s], "Device Model") :
                AtLeastAsTight(x[1], x[2], x[3], x[4], age_range[s],
                               selected_gender[s], selected_os[s],
                               selected_device[s])}}

\* C3: when the script has computed its view, the view has no more rows
\* than the source table, and no setting that narrows the age range or turns
\* an 'All' into a value has more rows than the view.
C3_Monotone ==
    \A s \in Sessions : pc[s] = "filtered" =>
        /\ NRows(filtered_df[s]) <= NRows(df[s])
        /\ \A n \in TighterCounts(s) : n <= NRows(filtered_df[s])

\* C3 witness: a view smaller than the table that a tighter setting shrinks
\* further.
C3_Witness ==
    \E s \in Sessions :
        /\ pc[s] = "filtered"
        /\ NRows(filtered_df[s]) < NRows(df[s])
        /\ \E n \in TighterCounts(s) : n < NRows(filtered_df[s]) /\ n > 0

AfterGuard == {"means", "heavy", "grouped_means", "correlation", "download", "table"}

\* C4: with an empty view the run never passes the guard: it is still at the
\* guard or halted with the warning shown, nothing after the guard has run,
\* heavy_percent and csv are never assigned, and no run crashes.
C4_EmptyStops ==
    \A s \in Sessions :
        /\ pc[s] # "crashed"
        /\ (HasView(s) /\ NRows(filtered_df[s]) = 0) =>
              /\ pc[s] \in {"filtered", "halted"}
              /\ pc[s] = "halted" => "warning" \in shown[s]
              /\ shown[s] \cap AfterGuard = {}
              /\ heavy_users[s] = Unbound
              /\ heavy_percent[s] = Unbound
              /\ csv[s] = Unbound

\* C4 witness: an age range between the observed ages matches no row, and
\* the run has halted with the warning.
C4_Witness ==
    \E s \in Sessions :
        /\ pc[s] = "halted"
        /\ "warning" \in shown[s]
        /\ NRows(filtered_df[s]) = 0
        /\ selected_gender[s] = AllCell
        /\ selected_os[s] = AllCell
        /\ selected_device[s] = AllCell

NothingBound(s) ==
    /\ df[s] = Unbound
    /\ filtered_df[s] = Unbound
    /\ age_range[s] = Unbound
    /\ heavy_percent[s] = Unbound
    /\ csv[s] = Unbound

\* C5 as stated: every load_data call made while the file is absent shows
\* the error and halts, with df unbound.
C5_Original ==
    [][\A s \in Sessions :
          (pc[s] = "start" /\ pc'[s] # "start" /\ ~filePresent) =>
              (pc'[s] = "halted" /\ "error" \in shown'[s] /\ df'[s] = Unbound)]_vars

\* C5 amended: every load_data call made while the file is absent and no
\* memoized table is held shows the error and halts; a run halted that way
\* has bound no table and run no later step, and only a new interaction
\* leaves that state.
C5_MissingFileHalts ==
    /\ [](\A s \in Sessions :
             (pc[s] = "halted" /\ "error" \in shown[s]) =>
                 (shown[s] = {"error"} /\ NothingBound(s)))
    /\ [][\A s \in Sessions :
             /\ (pc[s] = "start" /\ pc'[s] # "start" /\ ~filePresent /\ cache = NoEntry) =>
                    (pc'[s] = "halted" /\ shown'[s] = {"error"} /\ df'[s] = Unbound)
             /\ (pc[s] = "halted" /\ pc'[s] # "halted") => pc'[s] = "start"]_vars

\* C5 witness: a run halted by the missing file.
C5_Witness ==
    \E s \in Sessions :
        pc[s] = "halted" /\ shown[s] = {"error"} /\ ~filePresent /\ cache = NoEntry

\* Age Group as the claim tabulates it
ExpectedGroup(a) ==
    IF 18 <= a /\ a <= 25 THEN <<"cat", <<"18-25">>>>
    ELSE IF 26 <= a /\ a <= 35 THEN <<"cat", <<"26-35">>>>
    ELSE IF 36 <= a /\ a <= 45 THEN <<"cat", <<"36-45">>>>
    ELSE IF 46 <= a /\ a <= 59 THEN <<"cat", <<"46-59">>>>
    ELSE NaN

\* C6: in every loaded table each row's Age_Group is '18-25' for Age 18..25,
\* '26-35' for 26..35, '36-45' for 36..45, '46-59' for 46..59, and missing
\* for every other Age.
C6_AgeGroup ==
    \A s \in Sessions : IsTable(df[s]) =>
        \A i \in 1..NRows(df[s]) :
            df[s].data[i]["Age_Group"] = ExpectedGroup(df[s].data[i]["Age"][2])

\* C6 witness: a loaded row whose Age is the lower edge 17, which is in no bucket.
C6_Witness ==
    \E s \in Sessions :
        /\ IsTable(df[s])
        /\ \E i \in 1..NRows(df[s]) :
              df[s].data[i]["Age"][2] = 17 /\ df[s].data[i]["Age_Group"] = NaN

\* Screen-On Time >= 8 as the claim states it
IsHeavy(c) ==
    /\ c # NaN
    /\ \/ c[1] = "int" /\ c[2] >= 8
       \/ c[1] = "float" /\ c[2] >= 8 * Pow10(c[3])

HeavySet(s) ==
    {j \in 1..NRows(filtered_df[s]) :
        IsHeavy(filtered_df[s].data[j]["Screen On Time (hours/day)"])}

\* C7: once the key metrics are computed, heavy_users is the number of view
\* rows with Screen-On Time >= 8 and heavy_percent is 100 times that count
\* over the view's (non-zero) row count, hence between 0 and 100.
C7_HeavyPercent ==
    \A s \in Sessions : pc[s] \in {"tabs", "table", "done"} =>
        /\ NRows(filtered_df[s]) > 0
        /\ heavy_users[s] = Cardinality(HeavySet(s))
        /\ heavy_percent[s] = <<100 * Cardinality(HeavySet(s)), NRows(filtered_df[s])>>
        /\ 0 <= heavy_percent[s][1]
        /\ heavy_percent[s][1] <= 100 * heavy_percent[s][2]

\* C7 witness: a two-row view of a three-row table, one row at exactly 8.0
\* hours and one below: 50 percent, where the full table gives another figure.
C7_Witness ==
    \E s \in Sessions :
        /\ pc[s] = "done"
        /\ NRows(df[s]) = 3
        /\ heavy_percent[s] = <<100, 2>>
        /\ \E j \in 1..2 :
              filtered_df[s].data[j]["Screen On Time (hours/day)"] = <<"float", 8, 0>>
        /\ Cardinality({i \in 1..3 :
                           IsHeavy(df[s].data[i]["Screen On Time (hours/day)"])}) = 2

\* C8: the memoized table and every session's df are the table load_data
\* produced from the file, whatever the sessions have done since.
C8_SourceUnchanged ==
    LET loaded == LoadFrame(fileText)
    IN  /\ cache # NoEntry => cache = loaded
        /\ \A s \in Sessions : IsTable(df[s]) => df[s] = loaded

\* C8 witness: two sessions have filtered the shared table with different
\* settings, each to fewer rows than the table has.
C8_Witness ==
    /\ HasView("s1")
    /\ HasView("s2")
    /\ pc["s1"] = "done"
    /\ pc["s2"] = "halted"
    /\ NRows(filtered_df["s1"]) < NRows(df["s1"])
    /\ NRows(filtered_df["s2"]) < NRows(df["s2"])
    /\ cache # NoEntry

\* C9: the file is read at most once between cache invalidations, an entry
\* is held exactly when it has been read, and every table bound to df while
\* the entry is held equals the entry.
C9_Memoized ==
    /\ reads <= 1
    /\ cache # NoEntry <=> reads = 1
    /\ \A s \in Sessions : (IsTable(df[s]) /\ cache # NoEntry) => df[s] = cache

\* C9 witness: both sessions hold the table after one read, the second load
\* served while the file is gone.
C9_Witness ==
    /\ reads = 1
    /\ ~filePresent
    /\ pc["s1"] = "loaded"
    /\ pc["s2"] = "loaded"
    /\ df["s1"] = df["s2"]

\* equal cells, a categorical value read back as the string of its label
SameValue(parsed, held) ==
    \/ parsed = held
    \/ /\ parsed # NaN
       /\ held # NaN
       /\ parsed[1] = "str"
       /\ held[1] = "cat"
       /\ parsed[2] = held[2]

\* C10: parsing the exported text gives as many rows as the view, the view's
\* columns in the view's order (the file's columns, then Age_Group, and no
\* index column), and in every row and column the view's value.
C10_RoundTrip ==
    \A s \in Sessions : pc[s] = "done" =>
        LET v == filtered_df[s]
            r == read_csv(csv[s])
        IN  /\ NRows(v) > 0
            /\ NRows(r) = NRows(v)
            /\ r.columns = v.columns
            /\ r.columns = FileColumns \o <<"Age_Group">>
            /\ \A i \in 1..NRows(v) : \A c \in Range(v.columns) :
                   SameValue(r.data[i][c], v.data[i][c])

\* C10 witness: an exported view that dropped the table's first row, with a
\* two-decimal float in it.
C10_Witness ==
    \E s \in Sessions :
        /\ pc[s] = "done"
        /\ NRows(filtered_df[s]) < NRows(df[s])
        /\ filtered_df[s].index[1] > 0
        /\ \E i \in 1..NRows(filtered_df[s]) :
              filtered_df[s].data[i]["Screen On Time (hours/day)"] = <<"float", 1025, 2>>

=============================================================================
